---- MODULE Spec2Model ----
(***************************************************************************)
(* Model of the chat-driven router script dispatcher (src/bot_improved.py):*)
(* the per-user session store, the handlers telebot dispatches inbound     *)
(* events to, the device registry read from routers.json on every call,   *)
(* the SSH execution client and the administrator notification fan-out.    *)
(***************************************************************************)
EXTENDS Integers, Sequences, FiniteSets, TLC

VARIABLES
    file,         \* content of routers.json: [ok, routers]
    states,       \* UserStateManager._states: user id -> dict (a function on its keys)
    last,         \* what the handler that ran last did (replies, execution, notifications)
    inflight,     \* password handlers running on telebot's worker threads
    runs,         \* history: execute_script calls per user since the user's last script selection
    needRestart,  \* history: users whose last password attempt was a mismatch, until /run_script
    secretAtSelection, \* history: per user, the script_password of the selected router
                  \* as the registry held it when the script was selected
    client,       \* one call of RouterSSHClient.execute_script, followed step by step
    probe         \* one application of a pure function: [fn, in, out]

vars == <<file, states, last, inflight, runs, needRestart, secretAtSelection, client, probe>>

-----------------------------------------------------------------------------
(* Bounds and input universes *)

\* number of worker-thread slots for password handlers that run concurrently
MaxInflight == 2
\* cap of the per-user execution counter
MaxRuns == 2

MAX_RETRIES == 3

Users == {1, 2}
AdminSinks == {1, 2}
RouterNames == {"r1"}          \* names routers.json may hold
TokenNames == {"r1", "r2"}     \* names a selection token may carry ("r2" is never registered)
ScriptNames == {"s1", ";ls"}   \* script ids a selection token may carry
Passwords == {"p1", "p2"}      \* script_password values, and text message bodies
None == "<None>"

\* str(user_id)
Str(n) == CASE n = 1 -> "1" [] n = 2 -> "2" [] OTHER -> "?"

RouterConfigs ==
    [script_password : Passwords,
     scripts : {<<>>, <<"s1">>},
     allowed_users : SUBSET {Str(u) : u \in Users}]

\* every routers.json the administrator may leave on disk; ok = FALSE is a file
\* that is missing, is not JSON or lacks a required field
Files ==
    {[ok |-> FALSE, routers |-> <<>>]} \cup
    {[ok |-> TRUE, routers |-> r] :
        r \in UNION {[D -> RouterConfigs] : D \in SUBSET RouterNames}}

-----------------------------------------------------------------------------
(* RouterManager *)

\* load_routers: the mapping, or ConfigError
LoadFails(f) == ~f.ok
load_routers(f) == f.routers

\* routers.get(router_name) is truthy
HasRouter(routers, router_name) == router_name \in DOMAIN routers

\* a mutant of has_access that lets every user reach a registered router
has_access_open(user_id, router_name, routers) == HasRouter(routers, router_name)

\* a mutant of has_access that looks the user up on any registered router
has_access_any_router(user_id, router_name, routers) ==
    \E r \in DOMAIN routers : Str(user_id) \in routers[r].allowed_users

has_access(user_id, router_name, routers) ==
    IF ~HasRouter(routers, router_name)
    THEN FALSE
    ELSE Str(user_id) \in routers[router_name].allowed_users

-----------------------------------------------------------------------------
(* UserStateManager *)

get_state(S, user_id) == IF user_id \in DOMAIN S THEN S[user_id] ELSE None

HasState(S, user_id) == user_id \in DOMAIN S

\* dict.get(key)
Get(d, key) == IF key \in DOMAIN d THEN d[key] ELSE None

get_state_value(S, user_id, key) ==
    IF HasState(S, user_id) THEN Get(S[user_id], key) ELSE None

\* set_state: create the dict if absent, set 'state', update with kwargs;
\* keys set by earlier steps stay
set_state(S, user_id, state, kwargs) ==
    [u \in DOMAIN S \cup {user_id} |->
        IF u = user_id
        THEN kwargs @@ [state |-> state] @@ (IF u \in DOMAIN S THEN S[u] ELSE <<>>)
        ELSE S[u]]

\* a mutant of clear_state that leaves the entry in place
clear_state_kept(S, user_id) == S

\* a mutant of clear_state that removes every entry but the user's
clear_state_others(S, user_id) == [u \in DOMAIN S \cap {user_id} |-> S[u]]

\* a mutant of clear_state that empties the store
clear_state_all(S, user_id) == [u \in {} |-> S[u]]

clear_state(S, user_id) == [u \in DOMAIN S \ {user_id} |-> S[u]]

NoKwargs == <<>>

-----------------------------------------------------------------------------
(* Selection tokens (callback_data) *)

\* base64.b64encode(s.encode()).decode(): text that decodes back to s
b64encode(s) == [ok |-> TRUE, bytes |-> s]
\* callback text that is not the base64 form of any string
InvalidB64 == [ok |-> FALSE, bytes |-> ""]
\* base64.b64decode(...).decode() raises on such text
b64decodeRaises(e) == ~e.ok
b64decode(e) == e.bytes

RouterToken(router_name) == [kind |-> "router", data |-> b64encode(router_name)]
ScriptToken(router_name, script) ==
    [kind |-> "script", data |-> b64encode(router_name \o ":" \o script)]

RECURSIVE FindColon(_, _)
\* index of the first ':' of s at or after i, 0 if there is none
FindColon(s, i) ==
    IF i > Len(s) THEN 0
    ELSE IF SubSeq(s, i, i) = ":" THEN i
    ELSE FindColon(s, i + 1)

\* decoded_data.split(':', 1): one part when there is no ':', else two
SplitOnce(s) ==
    LET k == FindColon(s, 1)
    IN  IF k = 0 THEN <<s>>
        ELSE <<SubSeq(s, 1, k - 1), SubSeq(s, k + 1, Len(s))>>

\* tokens the chat client may send back: rendered ones, replayed ones and forged ones
RouterTokens ==
    {RouterToken(r) : r \in TokenNames} \cup {[kind |-> "router", data |-> InvalidB64]}
ScriptTokens ==
    {ScriptToken(r, s) : r \in TokenNames, s \in ScriptNames}
        \cup {[kind |-> "script", data |-> b64encode("r1")],
              [kind |-> "script", data |-> InvalidB64]}

-----------------------------------------------------------------------------
(* RouterSSHClient.execute_script *)

Alnum ==
    {"a","b","c","d","e","f","g","h","i","j","k","l","m","n","o","p","q","r","s","t",
     "u","v","w","x","y","z","0","1","2","3","4","5","6","7","8","9"}

RECURSIVE Remove(_, _)
\* str.replace(ch, '')
Remove(s, ch) ==
    IF Len(s) = 0 THEN ""
    ELSE IF SubSeq(s, 1, 1) = ch THEN Remove(SubSeq(s, 2, Len(s)), ch)
    ELSE SubSeq(s, 1, 1) \o Remove(SubSeq(s, 2, Len(s)), ch)

\* str.isalnum(): non-empty and every character alphanumeric
isalnum(s) == Len(s) > 0 /\ \A i \in 1..Len(s) : SubSeq(s, i, i) \in Alnum

\* a mutant of ValidScriptName that only refuses the empty name
ValidScriptName_nonempty(script) == script # None /\ Len(script) > 0

\* the guard of execute_script: ValueError unless it holds
ValidScriptName(script) ==
    script # None /\ Len(script) > 0 /\ isalnum(Remove(Remove(script, "_"), "-"))

AttemptOutcomes == {"ok", "NoValidConnectionsError"}
RunOutcomes == [1..MAX_RETRIES -> AttemptOutcomes]

RECURSIVE Attempts(_, _)
\* the retry loop from attempt number k on: a success returns, a failure is
\* retried unless it is the last attempt
Attempts(outcomes, k) ==
    IF outcomes[k] = "ok"
    THEN [raised |-> FALSE, result |-> "stdout", attempts |-> k]
    ELSE IF k = MAX_RETRIES
    THEN [raised |-> FALSE, result |-> outcomes[k], attempts |-> k]
    ELSE Attempts(outcomes, k + 1)

execute_script(script, outcomes) ==
    IF ~ValidScriptName(script)
    THEN [raised |-> TRUE, result |-> "ValueError", attempts |-> 0]
    ELSE Attempts(outcomes, 1)

-----------------------------------------------------------------------------
(* RouterSSHClient.execute_script and get_connection, one statement at a time *)

\* script names the client may be called with
ClientScripts == {"s1", "a_b-1", ";ls", "", "__", "a b"}

Successes == {"ok", "ok_empty"}
Failures == {"AuthenticationException", "NoValidConnectionsError", "SSHException", "Exception"}
\* how conn.run() of one attempt may end
ClientOutcomes == Successes \cup Failures

ClientIdle == [pc |-> "idle"]

\* for attempt in range(MAX_RETRIES)
InRange(attempt) == attempt \in 0..(MAX_RETRIES - 1)

\* a mutant of LastAttempt that is off by one
LastAttempt_late(attempt) == attempt = MAX_RETRIES

\* if attempt == MAX_RETRIES - 1, in each except clause
LastAttempt(attempt) == attempt = MAX_RETRIES - 1

\* a mutant of AttemptNumber that logs the loop index
AttemptNumber_index(attempt) == attempt

\* the number the except clauses log: attempt + 1
AttemptNumber(attempt) == attempt + 1

\* a mutant of FailureMessage with one message for every fault
FailureMessage_generic(outcome) == "unknown_msg"

\* the message the except clause matching the fault returns on the last attempt
FailureMessage(outcome) ==
    CASE outcome = "AuthenticationException" -> "auth_msg"
      [] outcome = "NoValidConnectionsError" -> "conn_msg"
      [] outcome = "SSHException" -> "ssh_msg"
      [] OTHER -> "unknown_msg"

\* return result.stdout if result.stdout else "... (без виводу)"
SuccessResult(outcome) == IF outcome = "ok" THEN "stdout" ELSE "no_output"

\* a mutant of ClosesAfter that closes only when the body ended normally
ClosesAfter_normal_exit(outcome) == outcome \in Successes

\* get_connection's finally clause: conn.close() however the body ended
ClosesAfter(outcome) == TRUE

Others == <<file, states, last, inflight, runs, needRestart, secretAtSelection, probe>>

\* execute_script(script) is called
ClientCall ==
    /\ client.pc \in {"idle", "returned", "raised"}
    /\ \E script \in ClientScripts :
          client' = [pc |-> "called", script |-> script, attempt |-> 0, open |-> 0,
                     opened |-> 0, outcomes |-> <<>>, log |-> <<>>, result |-> None]
    /\ UNCHANGED Others

\* the name check ahead of the loop: ValueError, or the loop starts
ClientValidate ==
    /\ client.pc = "called"
    /\ client' = [client EXCEPT !.pc = IF ValidScriptName(client.script)
                                       THEN "attempt" ELSE "raised"]
    /\ UNCHANGED Others

\* the head of the loop and the entry of get_connection: a Connection is made;
\* a loop that runs out of attempts falls off the end of the function
ClientOpen ==
    /\ client.pc = "attempt"
    /\ client' = IF InRange(client.attempt)
                 THEN [client EXCEPT !.pc = "open", !.open = @ + 1, !.opened = @ + 1]
                 ELSE [client EXCEPT !.pc = "returned"]
    /\ UNCHANGED Others

\* conn.run(...): connects, authenticates and runs the script
ClientRun ==
    /\ client.pc = "open"
    /\ \E outcome \in ClientOutcomes :
          client' = [client EXCEPT !.pc = "ran", !.outcomes = Append(@, outcome)]
    /\ UNCHANGED Others

\* get_connection is left, by the return or by the exception
ClientClose ==
    /\ client.pc = "ran"
    /\ client' = [client EXCEPT
                    !.pc = "closed",
                    !.open = IF ClosesAfter(client.outcomes[Len(client.outcomes)])
                             THEN @ - 1 ELSE @]
    /\ UNCHANGED Others

\* the return of the attempt's value, or the except clause matching its fault
ClientSettle ==
    /\ client.pc = "closed"
    /\ LET outcome == client.outcomes[Len(client.outcomes)] IN
       client' = IF outcome \in Successes
                 THEN [client EXCEPT !.pc = "returned", !.result = SuccessResult(outcome)]
                 ELSE IF LastAttempt(client.attempt)
                 THEN [client EXCEPT !.pc = "returned",
                                     !.log = Append(@, AttemptNumber(client.attempt)),
                                     !.result = FailureMessage(outcome)]
                 ELSE [client EXCEPT !.pc = "attempt",
                                     !.log = Append(@, AttemptNumber(client.attempt)),
                                     !.attempt = @ + 1]
    /\ UNCHANGED Others

-----------------------------------------------------------------------------
(* The token codec and the access test, applied to inputs of their own *)

\* device names and script ids a token may be built from, ':' included
ProbeNames == {"r1", "r:1", "r1:", ":"}
ProbeScripts == {"s1", "s:1", ";ls", ""}
\* registries over both device names
ProbeRegistries == UNION {[D -> RouterConfigs] : D \in SUBSET TokenNames}

NoProbe == [fn |-> "none"]

NotProbed == <<file, states, last, inflight, runs, needRestart, secretAtSelection, client>>

\* the token handle_router_selection renders for (router_name, script), decoded
\* the way handle_script_selection decodes it
ProbeScriptToken ==
    /\ \E router_name \in ProbeNames, script \in ProbeScripts :
          LET call == ScriptToken(router_name, script) IN
          probe' = [fn |-> "script_token", in |-> <<router_name, script>>,
                    out |-> IF b64decodeRaises(call.data) THEN <<>>
                            ELSE SplitOnce(b64decode(call.data))]
    /\ UNCHANGED NotProbed

\* has_access(user_id, router_name) over a registry
ProbeHasAccess ==
    /\ \E user_id \in Users, router_name \in TokenNames, routers \in ProbeRegistries :
          probe' = [fn |-> "has_access", in |-> <<user_id, router_name, routers>>,
                    out |-> has_access(user_id, router_name, routers)]
    /\ UNCHANGED NotProbed

-----------------------------------------------------------------------------
(* notify_admins *)

SinkOutcomes == [AdminSinks -> BOOLEAN]

\* a mutant of notify_admins without its try/except
notify_admins_raising(sinkOk) ==
    [delivered |-> IF sinkOk[1] THEN (IF sinkOk[2] THEN {1, 2} ELSE {1}) ELSE {},
     raised |-> ~(sinkOk[1] /\ sinkOk[2])]

\* both sends sit in one try block: the second is reached only when the first
\* returned; any exception is logged and swallowed
notify_admins(sinkOk) ==
    [delivered |-> IF sinkOk[1] THEN (IF sinkOk[2] THEN {1, 2} ELSE {1}) ELSE {},
     raised |-> FALSE]

-----------------------------------------------------------------------------
(* What a handler run leaves behind for the observer *)

NoExec == <<>>

\* ev: the handler; reply: the message sent to the user; offered: the selection
\* tokens rendered as buttons; check: how the password comparison ended; exec: the
\* (router, script) execute_script was called with; attempts: the SSH attempts it
\* made; notified: notify_admins was called; down: the administrator sinks that
\* refused the message; sinks: the sinks the notification reached; relay: what
\* became of the edit that carries the result to the user; result: the result
\* relayed; call: the selection token a router selection came with, or the text a
\* password attempt came with
Outcome(ev, user_id, reply) ==
    [ev |-> ev, user |-> user_id, reply |-> reply, offered |-> {}, check |-> None,
     exec |-> NoExec, attempts |-> 0, notified |-> FALSE, down |-> {}, sinks |-> {},
     relay |-> None, result |-> None, call |-> None]

Idle == [pc |-> "idle"]

Min(a, b) == IF a < b THEN a ELSE b

-----------------------------------------------------------------------------
(* Out-of-band edit of routers.json by an administrator *)

EditRegistry ==
    /\ \E f \in Files \ {file} : file' = f
    /\ last' = Outcome("edit", 0, None)
    /\ UNCHANGED <<states, inflight>>

-----------------------------------------------------------------------------
(* /start and /help *)

InfoCommand ==
    \E user_id \in Users :
        /\ last' = Outcome("info", user_id, "info")
        /\ UNCHANGED <<file, states, inflight>>

-----------------------------------------------------------------------------
(* /run_script *)

\* a mutant of accessible_routers that lists every registered router
accessible_routers_all(user_id, routers) == DOMAIN routers

accessible_routers(user_id, routers) ==
    {router_name \in DOMAIN routers : has_access(user_id, router_name, routers)}

\* replyOk: bot.reply_to returned; when it raises, the handler ends there
send_router_selection(user_id, replyOk) ==
    /\ UNCHANGED <<file, inflight>>
    /\ IF LoadFails(file)
       THEN /\ last' = Outcome("run_script", user_id, "config_error")
            /\ UNCHANGED states
       ELSE LET routers == load_routers(file)
                accessible == accessible_routers(user_id, routers)
            IN  IF accessible # {}
                THEN IF replyOk
                     THEN /\ states' = set_state(states, user_id, "waiting_for_router", NoKwargs)
                          /\ last' = [Outcome("run_script", user_id, "router_list")
                                        EXCEPT !.offered = {RouterToken(r) : r \in accessible}]
                     ELSE /\ last' = Outcome("run_script", user_id, None)
                          /\ UNCHANGED states
                ELSE /\ last' = Outcome("run_script", user_id, "no_access")
                     /\ UNCHANGED states

RunScriptCommandOf(U) ==
    \E user_id \in U, replyOk \in BOOLEAN : send_router_selection(user_id, replyOk)

RunScriptCommand == RunScriptCommandOf(Users)

-----------------------------------------------------------------------------
(* callback 'router:...' *)

\* editOk: bot.edit_message_text returned
handle_router_selection(user_id, call, editOk) ==
    /\ UNCHANGED <<file, inflight>>
    /\ IF b64decodeRaises(call.data) \/ LoadFails(file)
       THEN /\ last' = [Outcome("router", user_id, "request_error") EXCEPT !.call = call]
            /\ UNCHANGED states
       ELSE LET router_name == b64decode(call.data)
                routers == load_routers(file)
            IN  IF ~HasRouter(routers, router_name)
                      \/ ~has_access(user_id, router_name, routers)
                THEN /\ last' = [Outcome("router", user_id, "access_error") EXCEPT !.call = call]
                     /\ UNCHANGED states
                ELSE /\ states' = set_state(states, user_id, "waiting_for_script",
                                            [router |-> router_name])
                     /\ last' =
                          IF editOk
                          THEN [Outcome("router", user_id, "script_list")
                                  EXCEPT !.call = call, !.offered =
                                    {ScriptToken(router_name, routers[router_name].scripts[i]) :
                                        i \in DOMAIN routers[router_name].scripts}]
                          ELSE [Outcome("router", user_id, "request_error") EXCEPT !.call = call]

RouterSelectionOf(U) ==
    \E user_id \in U, call \in RouterTokens, editOk \in BOOLEAN :
        handle_router_selection(user_id, call, editOk)

RouterSelection == RouterSelectionOf(Users)

-----------------------------------------------------------------------------
(* callback 'script:...' *)

handle_script_selection(user_id, call, editOk) ==
    /\ UNCHANGED <<file, inflight>>
    /\ IF b64decodeRaises(call.data)
            \/ Len(SplitOnce(b64decode(call.data))) # 2
            \/ ~editOk
       THEN /\ last' = Outcome("script", user_id, "request_error")
            /\ UNCHANGED states
       ELSE LET parts == SplitOnce(b64decode(call.data))
                router_name == parts[1]
                script == parts[2]
            IN  /\ states' = set_state(states, user_id, "waiting_for_password",
                                       [router |-> router_name, script |-> script,
                                        chat_id |-> user_id])
                /\ last' = Outcome("script", user_id, "password_prompt")

ScriptSelectionOf(U) ==
    \E user_id \in U, call \in ScriptTokens, editOk \in BOOLEAN :
        handle_script_selection(user_id, call, editOk)

ScriptSelection == ScriptSelectionOf(Users)

-----------------------------------------------------------------------------
(* text messages *)

\* the filter of verify_password_and_execute, evaluated when the message is dispatched
PasswordFilter(S, user_id) == get_state_value(S, user_id, "state") = "waiting_for_password"

\* a mutant of PasswordMatches that accepts any text
PasswordMatches_any(text, router) == TRUE

\* message.text == router["script_password"]
PasswordMatches(text, router) == text = router.script_password

\* The body of verify_password_and_execute after get_state returned the dict state.
\* statusOk: the "running..." message was sent; outcomes: what each SSH attempt
\* meets; sinkOk: which administrator sinks accept a message; editOk: the result
\* message was delivered.
verify_password(user_id, text, state) ==
    LET router_name == Get(state, "router")
        script == Get(state, "script")
        Handled(reply) == [Outcome("text", user_id, reply) EXCEPT !.call = text]
        matched == [Handled("exec_error") EXCEPT !.check = "match"]
        called(run) == [matched EXCEPT !.exec = <<router_name, script>>,
                                       !.attempts = run.attempts]
        notified(run, sinkOk) ==
            [called(run) EXCEPT !.notified = TRUE,
                                !.down = {a \in AdminSinks : ~sinkOk[a]},
                                !.sinks = notify_admins(sinkOk).delivered]
    IN  /\ states' = clear_state(states, user_id)
        /\ UNCHANGED file
        /\ IF LoadFails(file)
           THEN last' = Handled("config_error")
           ELSE IF ~HasRouter(load_routers(file), router_name)
           THEN last' = Handled("router_not_found")
           ELSE IF ~PasswordMatches(text, load_routers(file)[router_name])
           THEN last' = [Handled("wrong_password")
                           EXCEPT !.check = "mismatch"]
           ELSE \E statusOk \in BOOLEAN :
                IF ~statusOk
                THEN last' = matched
                ELSE \E outcomes \in RunOutcomes :
                     LET run == execute_script(script, outcomes)
                     IN  IF run.raised
                         THEN last' = called(run)
                         ELSE \E sinkOk \in SinkOutcomes :
                              IF notify_admins(sinkOk).raised
                              THEN last' = notified(run, sinkOk)
                              ELSE \E editOk \in BOOLEAN :
                                   last' = IF editOk
                                           THEN [notified(run, sinkOk) EXCEPT
                                                   !.reply = "result",
                                                   !.relay = "sent",
                                                   !.result = run.result]
                                           ELSE [notified(run, sinkOk) EXCEPT
                                                   !.relay = "failed"]

handle_unknown(user_id) ==
    /\ last' = Outcome("text", user_id,
                       IF PasswordFilter(states, user_id) THEN None ELSE "unknown_command")
    /\ UNCHANGED <<file, states>>

\* One text message that is not a command, handled to the end before the next
\* event: telebot runs the first handler whose filter accepts the message.
TextMessageOf(U) ==
    \E user_id \in U :
        /\ UNCHANGED inflight
        /\ IF PasswordFilter(states, user_id)
           THEN \E text \in Passwords :
                    verify_password(user_id, text, get_state(states, user_id))
           ELSE handle_unknown(user_id)

TextMessage == TextMessageOf(Users)

-----------------------------------------------------------------------------
(* text messages handled on telebot's worker threads *)

\* the identities whose overlapping messages are followed
ThreadedUsers == {1}

\* the polling thread evaluates the filter and hands the handler to a worker
PasswordQueued ==
    \E i \in 1..MaxInflight, user_id \in ThreadedUsers, text \in Passwords :
        /\ inflight[i] = Idle
        /\ \A j \in 1..(i - 1) : inflight[j] # Idle
        /\ PasswordFilter(states, user_id)
        /\ inflight' = [inflight EXCEPT ![i] = [pc |-> "queued", user |-> user_id, text |-> text]]
        /\ last' = Outcome("queued", user_id, None)
        /\ UNCHANGED <<file, states>>

\* the worker runs state = get_state(user_id) and the "if not state" return
PasswordRead ==
    \E i \in 1..MaxInflight :
        /\ inflight[i].pc = "queued"
        /\ UNCHANGED <<file, states>>
        /\ IF HasState(states, inflight[i].user)
           THEN /\ inflight' = [inflight EXCEPT ![i] =
                                  [pc |-> "read", user |-> inflight[i].user,
                                   text |-> inflight[i].text,
                                   state |-> get_state(states, inflight[i].user)]]
                /\ last' = Outcome("read", inflight[i].user, None)
           ELSE /\ inflight' = [inflight EXCEPT ![i] = Idle]
                /\ last' = Outcome("text", inflight[i].user, "session_expired")

\* the worker runs the rest of the handler
PasswordFinish ==
    \E i \in 1..MaxInflight :
        /\ inflight[i].pc = "read"
        /\ inflight' = [inflight EXCEPT ![i] = Idle]
        /\ verify_password(inflight[i].user, inflight[i].text, inflight[i].state)

UnknownText ==
    \E user_id \in ThreadedUsers :
        /\ ~PasswordFilter(states, user_id)
        /\ handle_unknown(user_id)
        /\ UNCHANGED inflight

-----------------------------------------------------------------------------
(* The result message of verify_password_and_execute, by its length *)

\* len(result_text) > 4096
MessageLimit == 4096
\* result_text[:4090]
CutAt == 4090
\* len("...\n```")
SuffixLen == 7
\* the characters of the f-string of result_text besides script, router_name and result
FrameLen == 49

\* how far around the limit the lengths of the output are taken
Slack == 2

\* lengths of result: none, around the length that fills the message, far beyond
ResultLens ==
    LET fill == MessageLimit - FrameLen - Len("r1") - Len("s1")
    IN  {0} \cup ((fill - Slack)..(fill + Slack)) \cup {2 * MessageLimit}

\* len(result_text) as the code leaves it before edit_message_text
relayed_len(script, router_name, result_len) ==
    LET full == FrameLen + Len(script) + Len(router_name) + result_len
    IN  IF full > MessageLimit THEN Min(CutAt, full) + SuffixLen ELSE full

ProbeResultText ==
    /\ \E result_len \in ResultLens :
          probe' = [fn |-> "result_text", in |-> result_len,
                    out |-> relayed_len("s1", "r1", result_len)]
    /\ UNCHANGED NotProbed

-----------------------------------------------------------------------------
(* History variables, kept from what the handler that just ran did *)

\* the dispatcher's events leave the step-by-step client and the probe alone
Units == <<client, probe>>

NoHistory == UNCHANGED <<runs, needRestart, secretAtSelection, Units>>

\* runs: reset by a script selection that prompts for the password, counted up by
\* every call of execute_script
TrackRuns ==
    /\ runs' = IF last'.ev = "script" /\ last'.reply = "password_prompt"
               THEN [runs EXCEPT ![last'.user] = 0]
               ELSE IF last'.exec # NoExec
               THEN [runs EXCEPT ![last'.user] = Min(@ + 1, MaxRuns)]
               ELSE runs
    /\ UNCHANGED <<needRestart, secretAtSelection, Units>>

\* needRestart: entered by a password mismatch, left by the user's next /run_script
TrackRestart ==
    /\ needRestart' = IF last'.reply = "wrong_password"
                      THEN needRestart \cup {last'.user}
                      ELSE IF last'.ev = "run_script"
                      THEN needRestart \ {last'.user}
                      ELSE needRestart
    /\ UNCHANGED <<runs, secretAtSelection, Units>>

\* a script selection that opens the password phase notes the script_password the
\* registry holds for the selected router at that moment
TrackSelection ==
    /\ secretAtSelection' =
          IF last'.ev = "script" /\ last'.reply = "password_prompt"
          THEN [secretAtSelection EXCEPT ![last'.user] =
                  LET router_name == get_state_value(states', last'.user, "router")
                  IN  IF file.ok /\ HasRouter(file.routers, router_name)
                      THEN file.routers[router_name].script_password
                      ELSE None]
          ELSE secretAtSelection
    /\ UNCHANGED <<runs, needRestart, Units>>

-----------------------------------------------------------------------------
(* Specifications *)

Init ==
    /\ file \in {f \in Files : f.ok}
    /\ states = <<>>
    /\ last = Outcome("init", 0, None)
    /\ inflight = [i \in 1..MaxInflight |-> Idle]
    /\ runs = [u \in Users |-> 0]
    /\ needRestart = {}
    /\ secretAtSelection = [u \in Users |-> None]
    /\ client = ClientIdle
    /\ probe = NoProbe

\* events handled one at a time
Next ==
    \/ EditRegistry /\ NoHistory
    \/ InfoCommand /\ NoHistory
    \/ RunScriptCommand /\ NoHistory
    \/ RouterSelection /\ NoHistory
    \/ ScriptSelection /\ NoHistory
    \/ TextMessage /\ NoHistory

Spec == Init /\ [][Next]_vars

\* a registry that stays as loaded at start: user 1 may use r1, user 2 may not
FixedFile ==
    [ok |-> TRUE,
     routers |-> [r \in RouterNames |->
                    [script_password |-> "p1", scripts |-> <<"s1">>,
                     allowed_users |-> {Str(1)}]]]

InitFixed == Init /\ file = FixedFile

\* the same events without registry edits, with the mismatch history kept
NextRestart ==
    \/ InfoCommand /\ TrackRestart
    \/ RunScriptCommand /\ TrackRestart
    \/ RouterSelection /\ TrackRestart
    \/ ScriptSelection /\ TrackRestart
    \/ TextMessage /\ TrackRestart

SpecRestart == InitFixed /\ [][NextRestart]_vars

\* one user's events with the password handlers overlapping on the worker
\* threads, with the execution count kept
NextThreaded ==
    \/ RunScriptCommandOf(ThreadedUsers) /\ TrackRuns
    \/ RouterSelectionOf(ThreadedUsers) /\ TrackRuns
    \/ ScriptSelectionOf(ThreadedUsers) /\ TrackRuns
    \/ UnknownText /\ TrackRuns
    \/ PasswordQueued /\ TrackRuns
    \/ PasswordRead /\ TrackRuns
    \/ PasswordFinish /\ TrackRuns

SpecThreaded == InitFixed /\ [][NextThreaded]_vars

\* one user's events with registry edits in between, the secret at selection noted
NextEdited ==
    \/ EditRegistry /\ TrackSelection
    \/ RunScriptCommandOf(ThreadedUsers) /\ TrackSelection
    \/ RouterSelectionOf(ThreadedUsers) /\ TrackSelection
    \/ ScriptSelectionOf(ThreadedUsers) /\ TrackSelection
    \/ TextMessageOf(ThreadedUsers) /\ TrackSelection

SpecEdited == Init /\ [][NextEdited]_vars

\* one caller of execute_script at a time, every name and every run of faults
NextClient ==
    \/ ClientCall
    \/ ClientValidate
    \/ ClientOpen
    \/ ClientRun
    \/ ClientClose
    \/ ClientSettle

SpecClient == InitFixed /\ [][NextClient]_vars

\* the codec and the access test on every input of the probe universes
NextProbe ==
    \/ ProbeScriptToken
    \/ ProbeHasAccess
    \/ ProbeResultText

SpecProbe == InitFixed /\ [][NextProbe]_vars

-----------------------------------------------------------------------------
(* Properties *)

Executed == last.exec # NoExec

\* C1: execute_script is called for user u on router d only if has_access(u, d)
\* holds in the registry as loaded when the password message is handled.
AccessGateOnExecution ==
    Executed => (file.ok /\ has_access(last.user, last.exec[1], load_routers(file)))

\* C2: of the text messages one user sends while waiting_for_password, at most one
\* is handled as the password attempt: execute_script is called at most once per
\* script selection of that user.
AtMostOneExecutionPerSelection == \A u \in Users : runs[u] <= 1

Rank(state) ==
    CASE state = "waiting_for_router" -> 1
      [] state = "waiting_for_script" -> 2
      [] state = "waiting_for_password" -> 3
      [] OTHER -> 0

\* C3: the phase of an existing session never moves to an earlier phase of
\* waiting_for_router < waiting_for_script < waiting_for_password.
PhaseOnlyAdvances ==
    [][\A u \in Users :
          (HasState(states, u) /\ HasState(states', u))
              => Rank(states'[u].state) >= Rank(states[u].state)]_vars

ErrorReplies == {"request_error", "access_error"}

SameEntry(S, T, u) ==
    /\ HasState(S, u) <=> HasState(T, u)
    /\ HasState(S, u) => S[u] = T[u]

\* C4: a router selection by a user not in waiting_for_router, and a script
\* selection by a user not in waiting_for_script (a user without a session
\* included), leaves the user's session as it was and answers with an error.
InvalidActionLeavesPhase ==
    [][\A u \in Users :
          /\ (last'.ev = "router" /\ last'.user = u
                /\ get_state_value(states, u, "state") # "waiting_for_router")
              => (SameEntry(states, states', u) /\ last'.reply \in ErrorReplies)
          /\ (last'.ev = "script" /\ last'.user = u
                /\ get_state_value(states, u, "state") # "waiting_for_script")
              => (SameEntry(states, states', u) /\ last'.reply \in ErrorReplies)]_vars

\* C5: a text equal to the confirmation secret, sent while waiting_for_password,
\* clears the session and delivers exactly one notification to each of the two
\* administrator sinks. Stated for the runs most favourable to it: the status
\* message went out, execute_script was called and no sink refuses a message.
MatchClearsAndNotifiesEachSink ==
    (last.check = "match" /\ Executed /\ last.down = {})
        => (~HasState(states, last.user) /\ last.sinks = AdminSinks)

\* C6: a text that differs from the confirmation secret, sent while
\* waiting_for_password, clears the session; execute_script is not called, no SSH
\* attempt is made and no administrator sink is notified.
MismatchClearsWithoutExecution ==
    last.check = "mismatch" =>
        /\ ~HasState(states, last.user)
        /\ ~Executed
        /\ last.attempts = 0
        /\ ~last.notified
        /\ last.sinks = {}

MismatchHandled ==
    /\ last.check = "mismatch"
    /\ last.reply = "wrong_password"
    /\ \E u \in Users \ {last.user} : HasState(states, u)

\* C7: after a password mismatch of a user, execute_script is not called for that
\* user before a /run_script of that user has been handled.
NoExecutionBeforeRestart == Executed => last.user \notin needRestart

\* C8: whenever the password matched and execute_script was called (whether it
\* returned output, returned a failure message after the last retry, or rejected
\* the script name), notify_admins is called.
EveryExecutionNotified == Executed => last.notified

\* C9: an administrator sink that refuses the notification does not keep it from
\* the other sinks: every sink that accepts messages receives it.
SinksNotifiedIndependently ==
    last.notified => (AdminSinks \ last.down) \subseteq last.sinks

\* C10: when administrator sinks refuse the notification after a matching
\* password, the result is still sent on to the user (the edit that carries it is
\* made, and carries the execution result when it goes through) and the session
\* is cleared.
NotifyFailureDoesNotBlockReply ==
    (last.notified /\ last.down # {}) =>
        /\ last.relay # None
        /\ (last.relay = "sent" => (last.reply = "result" /\ last.result # None))
        /\ ~HasState(states, last.user)

AllSinksDownResultRelayed ==
    /\ last.notified
    /\ last.down = AdminSinks
    /\ last.relay = "sent"
    /\ last.result = "stdout"

\* a character of s that is neither alphanumeric nor '_' nor '-'
HasForeignChar(s) ==
    \E i \in 1..Len(s) : SubSeq(s, i, i) \notin (Alnum \cup {"_", "-"})

\* C11: a call of execute_script whose script name is empty or holds a character
\* other than alphanumerics, '_' and '-' ends in the ValueError of the name check
\* with no session opened, no attempt run and no attempt of the loop consumed.
InvalidNameFailsBeforeAnyAttempt ==
    (/\ client.pc \notin {"idle", "called"}
     /\ (client.script = "" \/ HasForeignChar(client.script)))
        => /\ client.pc = "raised"
           /\ client.opened = 0
           /\ client.open = 0
           /\ client.attempt = 0
           /\ client.outcomes = <<>>

InjectionNameRejected == client.pc = "raised" /\ client.script = ";ls"

AllFailures(outcomes) == \A i \in 1..Len(outcomes) : outcomes[i] \in Failures

\* C12: a call makes at most 3 attempts; an attempt after the first is made only
\* when every earlier one failed; the call has returned once an attempt succeeded or
\* the third one failed; three connection failures return the connection message.
AtMostThreeAttempts ==
    client.pc \notin {"idle", "called", "raised"} =>
        /\ client.opened <= 3
        /\ Len(client.outcomes) <= 3
        /\ \A i \in 1..(Len(client.outcomes) - 1) : client.outcomes[i] \in Failures
        /\ client.pc \in {"attempt", "open"} =>
              AllFailures(client.outcomes) /\ Len(client.outcomes) < 3
        /\ client.pc = "returned" =>
              \/ client.outcomes[Len(client.outcomes)] \in Successes
              \/ Len(client.outcomes) = 3
        /\ (client.pc = "returned"
              /\ client.outcomes = <<"NoValidConnectionsError", "NoValidConnectionsError",
                                     "NoValidConnectionsError">>)
              => client.result = "conn_msg"

ThreeConnectionFailuresReturned ==
    /\ client.pc = "returned"
    /\ client.outcomes = <<"NoValidConnectionsError", "NoValidConnectionsError",
                           "NoValidConnectionsError">>
    /\ client.opened = 3

\* the message category the specification names for each fault
Category(outcome) ==
    CASE outcome = "AuthenticationException" -> "auth_msg"
      [] outcome = "NoValidConnectionsError" -> "conn_msg"
      [] outcome = "SSHException" -> "ssh_msg"
      [] outcome = "Exception" -> "unknown_msg"

NumFailures(outcomes) == Cardinality({i \in 1..Len(outcomes) : outcomes[i] \in Failures})

SessionPerAttemptReleased ==
    client.pc # "idle" =>
        /\ client.open = IF client.pc \in {"open", "ran"} THEN 1 ELSE 0
        /\ client.opened = Len(client.outcomes) + IF client.pc = "open" THEN 1 ELSE 0

AllFailedNoSessionLeft ==
    /\ client.pc = "returned"
    /\ client.outcomes = <<"Exception", "SSHException", "Exception">>
    /\ client.opened = 3

\* C16: decoding the script-selection token built for (router_name, script) gives
\* router_name and script back, also when either of them holds a ':'.
ScriptTokenRoundTrips ==
    probe.fn = "script_token" => probe.out = probe.in

\* C17: has_access is FALSE for a router the registry does not hold, and for a
\* registered router it is TRUE exactly when str(user_id) is in its allowed_users.
HasAccessIffRegisteredAndListed ==
    probe.fn = "has_access" =>
        LET user_id == probe.in[1]
            router_name == probe.in[2]
            routers == probe.in[3]
        IN  /\ router_name \notin DOMAIN routers => probe.out = FALSE
            /\ router_name \in DOMAIN routers =>
                  (probe.out <=> Str(user_id) \in routers[router_name].allowed_users)

\* the user is listed on the other router only
ListedElsewhereRefused ==
    /\ probe.fn = "has_access"
    /\ probe.out = FALSE
    /\ \E r \in DOMAIN probe.in[3] \ {probe.in[2]} :
          Str(probe.in[1]) \in probe.in[3][r].allowed_users

\* the routers of the registry file f that list user u
Listed(f, u) ==
    IF f.ok THEN {r \in DOMAIN f.routers : Str(u) \in f.routers[r].allowed_users} ELSE {}

\* C18: /run_script offers exactly the routers of the registry as loaded by that
\* call that list the user; the user's session changes only when that set is not
\* empty, and then to waiting_for_router; with an empty set or a registry that does
\* not load, nothing is offered and the session is as it was.
DeviceListFiltered ==
    [][last'.ev = "run_script" =>
         LET u == last'.user
             listed == Listed(file, u)
         IN  /\ last'.reply = "router_list" =>
                   /\ last'.offered = {RouterToken(r) : r \in listed}
                   /\ get_state_value(states', u, "state") = "waiting_for_router"
             /\ ~SameEntry(states, states', u) =>
                   /\ listed # {}
                   /\ get_state_value(states', u, "state") = "waiting_for_router"
             /\ listed = {} => last'.offered = {} /\ SameEntry(states, states', u)
             /\ \A v \in Users \ {u} : SameEntry(states, states', v)]_vars

DeviceListPresented ==
    /\ last.ev = "run_script"
    /\ last.reply = "router_list"
    /\ last.offered = {RouterToken("r1")}
    /\ get_state_value(states, last.user, "state") = "waiting_for_router"

\* C19: a router selection changes the user's session only when its token decodes
\* to a router that the registry as loaded by that call holds and that lists the
\* user, and then to waiting_for_script with that router; a token that does not
\* decode, a registry that does not load, an unknown router and a user who is not
\* (or no longer) listed leave the session as it was.
DeviceSelectionRechecked ==
    [][last'.ev = "router" =>
         LET u == last'.user
             call == last'.call
         IN  /\ IF /\ ~b64decodeRaises(call.data)
                   /\ b64decode(call.data) \in Listed(file, u)
                THEN /\ get_state_value(states', u, "state") = "waiting_for_script"
                     /\ get_state_value(states', u, "router") = b64decode(call.data)
                ELSE SameEntry(states, states', u)
             /\ \A v \in Users \ {u} : SameEntry(states, states', v)]_vars

\* the user was offered r1, was then taken off its allowed_users, and selects it
RevokedSelectionRefused ==
    /\ last.ev = "router"
    /\ last.call = RouterToken("r1")
    /\ last.reply = "access_error"
    /\ file.ok /\ "r1" \in DOMAIN file.routers
    /\ get_state_value(states, last.user, "state") = "waiting_for_router"

\* C20: execute_script is called for (router, script) only when script is in the
\* scripts list the registry holds for router.
OnlyRegisteredScriptsExecuted ==
    Executed =>
        /\ file.ok
        /\ last.exec[1] \in DOMAIN file.routers
        /\ \E i \in DOMAIN file.routers[last.exec[1]].scripts :
              file.routers[last.exec[1]].scripts[i] = last.exec[2]

\* the events that are messages of the user, as opposed to button presses
MessageEvents == {"info", "run_script", "text"}

\* C21: a message of a user whose session is in waiting_for_password, commands
\* included, is handled as the password attempt: it is compared with the
\* script_password and the session is cleared; no other handler gets it.
CommandsInterceptedAsPassword ==
    [][(last'.ev \in MessageEvents /\ PasswordFilter(states, last'.user)) =>
          /\ last'.ev = "text"
          /\ last'.reply \notin {None, "unknown_command"}
          /\ ~HasState(states', last'.user)]_vars

\* C22: a text message of a user who has no entry in the store is answered with
\* the session-expired message and leaves the store as it was.
NoEntryAnsweredSessionExpired ==
    [][(last'.ev = "text" /\ ~HasState(states, last'.user)) =>
          /\ last'.reply = "session_expired"
          /\ states' = states]_vars

\* C23: a password attempt matches exactly when the registry as loaded by that
\* attempt holds the selected router and the text equals its script_password;
\* execute_script is called only after a match, and never when the router is gone
\* or the registry does not load. What the secret was at selection time plays no part.
PasswordComparedWithCurrentSecret ==
    [][(last'.ev = "text" /\ PasswordFilter(states, last'.user)) =>
          LET router_name == get_state_value(states, last'.user, "router")
              known == file.ok /\ router_name \in DOMAIN file.routers
          IN  /\ last'.check = "match" <=>
                    (known /\ last'.call = file.routers[router_name].script_password)
              /\ last'.exec # NoExec => last'.check = "match"
              /\ ~known => last'.exec = NoExec]_vars

\* the secret was changed after the selection: the new one is accepted
NewSecretMatched ==
    /\ last.ev = "text"
    /\ last.check = "match"
    /\ Executed
    /\ secretAtSelection[last.user] \notin {None, last.call}

\* C24: once verify_password_and_execute has handled a text, the user has no
\* entry in the store, whichever way it ended: result relayed, failure message
\* as the result, mismatch, router gone, registry not loading, an exception from
\* the status message, from execute_script or from the relay of the result.
PasswordAttemptAlwaysClears ==
    (last.ev = "text" /\ last.call # None) => ~HasState(states, last.user)

\* execute_script ran and the edit that carries its result raised
RelayFailedSessionCleared ==
    /\ last.ev = "text"
    /\ Executed
    /\ last.relay = "failed"
    /\ ~HasState(states, last.user)

\* C25: in every store state an entry holds 'router' exactly when its state is
\* waiting_for_script or waiting_for_password, and 'script' exactly when its state
\* is waiting_for_password: nothing kept by an earlier step outlives a later
\* /run_script or router selection of the same user.
PhaseFieldConsistency ==
    \A u \in DOMAIN states :
        /\ "router" \in DOMAIN states[u] <=>
              states[u].state \in {"waiting_for_script", "waiting_for_password"}
        /\ "script" \in DOMAIN states[u] <=> states[u].state = "waiting_for_password"

\* C26: the result text handed to edit_message_text is at most 4096 characters
\* long, whatever the length of the script's output.
RelayedTextWithinLimit ==
    probe.fn = "result_text" => probe.out <= 4096

\* C27: the handler of an event of one user leaves the entry of every other user
\* as it was, and when it calls execute_script the router and the script are the
\* ones of that user's own entry.
CrossIdentityIsolation ==
    [][/\ \A v \in Users \ {last'.user} : SameEntry(states, states', v)
       /\ (last'.ev = "text" /\ last'.exec # NoExec) =>
             /\ HasState(states, last'.user)
             /\ last'.exec = <<Get(states[last'.user], "router"),
                               Get(states[last'.user], "script")>>]_vars

\* one user's script ran while the other waits for a password for another script
ExecutedBesideOtherSession ==
    /\ last.ev = "text"
    /\ Executed
    /\ \E v \in Users \ {last.user} :
          /\ get_state_value(states, v, "state") = "waiting_for_password"
          /\ get_state_value(states, v, "script") # last.exec[2]

====
